---------------------------- MODULE Spec2Model ----------------------------
(***************************************************************************)
(* Model of the VPS manager (src/vps/server.js): the four SQLite tables,   *)
(* the pm2 supervisor, the bots directory, and one action per HTTP handler *)
(* and for the daily cron job.                                             *)
(*                                                                         *)
(* Every handler of server.js is a synchronous function on Node's single   *)
(* thread (better-sqlite3 and execSync block), so a handler runs to        *)
(* completion before the next one starts: one handler is one action.       *)
(* The statements of a handler are not wrapped in a database transaction,  *)
(* so a statement that throws, or a process that dies between two          *)
(* statements, leaves the effects of the statements before it.  Each       *)
(* action takes a `fault` input naming the statement (at most one per      *)
(* invocation) at which that happens.                                      *)
(***************************************************************************)
EXTENDS Integers, Sequences, FiniteSets, TLC

\* ------------------------------------------------------------------ bounds
MaxUsers == 2
MaxBots  == 2
MaxTx    == 4
MaxPr    == 2
MaxTime  == 1
MaxFaults == 1

\* --------------------------------------------------------------- constants
DAILY_COIN_COST == 1
WELCOME_BONUS   == 3

NULL   == -1
NoName == ""

\* request inputs (name and password of a registration are well-formed)
Usernames == { "alice", "bob" }
RegForms ==
  { [username |-> "alice", email |-> "a@x.io"],
    [username |-> "bob",   email |-> "b@x.io"],
    [username |-> "Al",    email |-> "c@x.io"] }
UserIds      == 1..MaxUsers
BotIds       == 1..MaxBots
PrIds        == 1..MaxPr
AppNames     == { NoName }
SessionIds   == { "", "sess" }
\* session secrets of 4, 30, 31 and 40 characters
Secrets ==
  { "sess",
    "0123456789abcdefghij0123456789",
    "0123456789abcdefghij0123456789X",
    "0123456789abcdefghij0123456789Yabcdefghi" }
TopupAmounts == { -1, 0, 2 }
PrCoins      == { -2, 0, 2 }

VARIABLES
  users,            \* table users: id -> [username, email, coins]
  nextUserId,       \* AUTOINCREMENT of users.id
  deployments,      \* table deployments: bot_id -> [user_id, app_name, status,
                    \*   stopped_at, session_preview]
  nextBot,          \* freshness of `bot-${Date.now()}-${random}`
  transactions,     \* table transactions, in id order: <<[user_id, amount, type]>>
  payment_requests, \* table payment_requests: id -> [user_id, coins, status, reviewed_at]
  nextPrId,         \* AUTOINCREMENT of payment_requests.id
  procs,            \* names registered with pm2
  dirs,             \* bot ids whose working tree exists under BOTS_DIR
  now,              \* datetime('now')
  faults,           \* statements that have failed so far
  last,             \* the last request and its response
  mock              \* the in-memory store of src/mock-server.js

vars == << users, nextUserId, deployments, nextBot, transactions,
           payment_requests, nextPrId, procs, dirs, now, faults, last, mock >>

db == << users, deployments, transactions, payment_requests >>

\* ----------------------------------------------------------------- helpers
\* status is the HTTP status of the response; 0 stands for no response (the
\* process died).  botId and coins are the fields of a response body.  fault
\* is the statement that failed while the request was served.  user is the
\* user of the token of a request to the panel gateway, sessionId the session
\* secret of a deploy request that was carried out.
Resp(op, arg, status) ==
  [op |-> op, arg |-> arg, status |-> status, botId |-> 0, coins |-> 0,
   fault |-> "none", user |-> 0, sessionId |-> ""]

Failed(op, arg, status, fault) == [Resp(op, arg, status) EXCEPT !.fault = fault]

Remove(f, k) == [x \in DOMAIN f \ {k} |-> f[x]]

RunningOf(deps, uid) ==
  { b \in DOMAIN deps : deps[b].user_id = uid /\ deps[b].status = "running" }

UserByName(username) == { u \in DOMAIN users : users[u].username = username }

Tx(uid, amount, type) == [user_id |-> uid, amount |-> amount, type |-> type]

\* Position of a statement in a handler's statement list.
Pos(steps, s) == CHOOSE i \in 1..Len(steps) : steps[i] = s

\* Statement s of `steps` has run when the fault is at a later statement.
Done(steps, fault, s) == fault = "none" \/ Pos(steps, fault) > Pos(steps, s)

Faults(steps) == { "none" } \cup { steps[i] : i \in 1..Len(steps) }

\* A handler that returns before its first fallible statement meets no fault.
NoFault(fault) == fault = "none" /\ UNCHANGED faults

\* At most MaxFaults statements fail in one behaviour.
Inject(fault) ==
  IF fault = "none" THEN UNCHANGED faults
  ELSE faults < MaxFaults /\ faults' = faults + 1

\* -------------------------------------------------------------------- Init
\* the Maps, the array and the counters of src/mock-server.js at start
MockInit ==
  [users |-> << >>, nextId |-> 1, deployments |-> << >>, nextBot |-> 1,
   transactions |-> << >>, paymentRequests |-> << >>, nextPrId |-> 1,
   status |-> 200]

Init ==
  /\ users = << >>
  /\ nextUserId = 1
  /\ deployments = << >>
  /\ nextBot = 1
  /\ transactions = << >>
  /\ payment_requests = << >>
  /\ nextPrId = 1
  /\ procs = {}
  /\ dirs = {}
  /\ now = 0
  /\ faults = 0
  /\ last = Resp("init", 0, 200)
  /\ mock = MockInit

\* A handler reads datetime('now') once; the clock never runs backwards.
Clock == now' \in { t \in {now, now + 1} : t <= MaxTime }

\* ---------------------------------------------------------------- register
\* /^[a-z0-9_]{3,30}$/ on the usernames of RegForms
ValidUsername(username) == username \in Usernames

RegisterSteps == << "insertUser", "insertTx", "select" >>

Register(form, fault) ==
  LET id == nextUserId
      ran(s) == Done(RegisterSteps, fault, s)
  IN
  /\ Clock
  /\ UNCHANGED << deployments, nextBot, payment_requests, nextPrId, procs, dirs >>
  /\ IF ~ValidUsername(form.username)
     THEN /\ NoFault(fault)
          /\ last' = Resp("register", form.username, 400)
          /\ UNCHANGED << users, nextUserId, transactions >>
     ELSE IF \E u \in DOMAIN users : users[u].username = form.username
               \/ users[u].email = form.email
     THEN /\ NoFault(fault)
          /\ last' = Resp("register", form.username, 409)
          /\ UNCHANGED << users, nextUserId, transactions >>
     ELSE /\ nextUserId <= MaxUsers
          /\ Len(transactions) < MaxTx
          /\ Inject(fault)
          /\ users' = IF ran("insertUser")
                      THEN users @@ (id :> [username |-> form.username,
                                            email |-> form.email,
                                            coins |-> WELCOME_BONUS])
                      ELSE users
          /\ nextUserId' = IF ran("insertUser") THEN id + 1 ELSE id
          /\ transactions' = IF ran("insertTx")
                             THEN Append(transactions, Tx(id, WELCOME_BONUS, "credit"))
                             ELSE transactions
          /\ last' = IF fault = "none"
                     THEN [Resp("register", form.username, 200) EXCEPT !.coins = WELCOME_BONUS]
                     ELSE Failed("register", form.username, 500, fault)

\* ------------------------------------------------------------------ deploy
InsufficientFundsInclusive(user) == user.coins <= DAILY_COIN_COST

InsufficientFunds(user) == user.coins < DAILY_COIN_COST

ExistingRunningNone(uid) == {}

ExistingRunning(uid) == RunningOf(deployments, uid)

AppName(appName, user) == IF appName # NoName THEN appName ELSE "msb-" \o user.username

DeployStepsDebitFirst ==
  << "mkdir", "rsync", "symlink", "env", "ecosystem", "debit", "pm2start",
     "pm2save", "insertTx", "insertDeployment", "select" >>

DeploySteps ==
  << "mkdir", "rsync", "symlink", "env", "ecosystem", "pm2start", "pm2save",
     "debit", "insertTx", "insertDeployment", "select" >>

DeployDebitTwice(coins) == coins - 2 * DAILY_COIN_COST

DeployDebit(coins) == coins - DAILY_COIN_COST

DeployTx(uid) == Tx(uid, -DAILY_COIN_COST, "deploy")

PREVIEW_LEN == 30

\* sessionId.substring(0, 30)
Substring(str, end) == SubSeq(str, 1, IF Len(str) < end THEN Len(str) ELSE end)

SessionPreview(sessionId) == Substring(sessionId, PREVIEW_LEN) \o "..."

DeployRow(uid, name, sessionId) ==
  [user_id |-> uid, app_name |-> name, status |-> "running", stopped_at |-> NULL,
   session_preview |-> SessionPreview(sessionId)]

\* POST /deploy.  A fault with crash = FALSE is a statement that throws (the
\* catch block removes the working tree and answers 500); with crash = TRUE
\* the process dies before the statement and nothing more runs.
Deploy(uid, sessionId, appName, fault, crash) ==
  LET bot == nextBot
      ran(s) == Done(DeploySteps, fault, s)
      threw == fault # "none" /\ ~crash
  IN
  /\ Clock
  /\ UNCHANGED << nextUserId, payment_requests, nextPrId >>
  /\ IF uid = 0 \/ sessionId = ""
     THEN /\ NoFault(fault) /\ ~crash
          /\ last' = Resp("deploy", uid, 400)
          /\ UNCHANGED << users, deployments, nextBot, transactions, procs, dirs >>
     ELSE IF uid \notin DOMAIN users
     THEN /\ NoFault(fault) /\ ~crash
          /\ last' = Resp("deploy", uid, 404)
          /\ UNCHANGED << users, deployments, nextBot, transactions, procs, dirs >>
     ELSE IF InsufficientFunds(users[uid])
     THEN /\ NoFault(fault) /\ ~crash
          /\ last' = Resp("deploy", uid, 402)
          /\ UNCHANGED << users, deployments, nextBot, transactions, procs, dirs >>
     ELSE IF ExistingRunning(uid) # {}
     THEN /\ NoFault(fault) /\ ~crash
          /\ last' = [Resp("deploy", uid, 409)
                        EXCEPT !.botId = CHOOSE b \in ExistingRunning(uid) : TRUE]
          /\ UNCHANGED << users, deployments, nextBot, transactions, procs, dirs >>
     ELSE LET name == AppName(appName, users[uid]) IN
          /\ nextBot <= MaxBots
          /\ Inject(fault)
          /\ crash => fault # "none"
          /\ Len(transactions) < MaxTx
          /\ nextBot' = nextBot + 1
          /\ dirs' = IF ran("mkdir") /\ ~threw THEN dirs \cup {bot} ELSE dirs \ {bot}
          /\ procs' = IF ran("pm2start") THEN procs \cup {name} ELSE procs
          /\ users' = IF ran("debit")
                      THEN [users EXCEPT ![uid].coins = DeployDebit(@)]
                      ELSE users
          /\ transactions' = IF ran("insertTx")
                             THEN Append(transactions, DeployTx(uid))
                             ELSE transactions
          /\ deployments' = IF ran("insertDeployment")
                            THEN deployments @@ (bot :> DeployRow(uid, name, sessionId))
                            ELSE deployments
          /\ last' = IF fault = "none"
                     THEN [Resp("deploy", uid, 200)
                             EXCEPT !.botId = bot, !.coins = users'[uid].coins,
                                    !.sessionId = sessionId]
                     ELSE Failed("deploy", uid, IF crash THEN 0 ELSE 500, fault)

\* -------------------------------------------------------------------- stop
StoppedByUserRunning == "running"

StoppedByUser  == "stopped"
StoppedByAdminAsUser == "stopped"

StoppedByAdmin == "stopped_by_admin"
StoppedNoCoins == "stopped_no_coins"

StopSteps == << "pm2delete", "pm2save", "update" >>

\* The try/catch around the pm2 calls swallows their errors: the UPDATE runs
\* unless it is the statement that fails.
StopUpdateRunsStrict(fault) == fault = "none"

StopUpdateRuns(fault) == fault # "update"

Pm2Name(dep) == dep.app_name

MarkStopped(deps, bot, status) ==
  [deps EXCEPT ![bot].status = status, ![bot].stopped_at = now']

\* DELETE /deploy/:botId and DELETE /admin/deployments/:botId differ only in
\* the status they write.
StopHandler(op, bot, status, fault) ==
  /\ Clock
  /\ UNCHANGED << users, nextUserId, nextBot, transactions, payment_requests,
                  nextPrId, dirs >>
  /\ IF bot \notin DOMAIN deployments
     THEN /\ NoFault(fault)
          /\ last' = Resp(op, bot, 404)
          /\ UNCHANGED << deployments, procs >>
     ELSE /\ Inject(fault)
          /\ procs' = IF fault = "pm2delete" THEN procs
                      ELSE procs \ {Pm2Name(deployments[bot])}
          /\ deployments' = IF StopUpdateRuns(fault)
                            THEN MarkStopped(deployments, bot, status)
                            ELSE deployments
          /\ last' = Failed(op, bot, IF StopUpdateRuns(fault) THEN 200 ELSE 500, fault)

Stop(bot, fault) == StopHandler("stop", bot, StoppedByUser, fault)

AdminStop(bot, fault) == StopHandler("adminStop", bot, StoppedByAdmin, fault)

\* The tokens the gateway has signed: one for every user ever registered.
TokenHolders == 1..(nextUserId - 1)

\* DELETE /api/deploy/:botId of the panel gateway: requireAuth verifies the
\* token (uid = 0: no valid token), the request is forwarded to
\* DELETE /deploy/:botId, and any error of that call is answered 500.
ApiStop(uid, bot, fault) ==
  /\ Clock
  /\ UNCHANGED << users, nextUserId, nextBot, transactions, payment_requests,
                  nextPrId, dirs >>
  /\ IF uid \notin TokenHolders
     THEN /\ NoFault(fault)
          /\ last' = Resp("apiStop", bot, 401)
          /\ UNCHANGED << deployments, procs >>
     ELSE IF bot \notin DOMAIN deployments
     THEN /\ NoFault(fault)
          /\ last' = [Resp("apiStop", bot, 500) EXCEPT !.user = uid]
          /\ UNCHANGED << deployments, procs >>
     ELSE /\ Inject(fault)
          /\ procs' = IF fault = "pm2delete" THEN procs
                      ELSE procs \ {Pm2Name(deployments[bot])}
          /\ deployments' = IF StopUpdateRuns(fault)
                            THEN MarkStopped(deployments, bot, StoppedByUser)
                            ELSE deployments
          /\ last' = [Failed("apiStop", bot,
                             IF StopUpdateRuns(fault) THEN 200 ELSE 500, fault)
                        EXCEPT !.user = uid]

\* DELETE /deploy/:botId/record
MustStopFirstNever(dep) == FALSE

MustStopFirst(dep) == dep.status = "running"

DeleteRecord(bot) ==
  /\ Clock
  /\ UNCHANGED << users, nextUserId, nextBot, transactions, payment_requests,
                  nextPrId, procs, dirs, faults >>
  /\ IF bot \notin DOMAIN deployments
     THEN /\ last' = Resp("deleteRecord", bot, 404)
          /\ UNCHANGED deployments
     ELSE IF MustStopFirst(deployments[bot])
     THEN /\ last' = Resp("deleteRecord", bot, 400)
          /\ UNCHANGED deployments
     ELSE /\ deployments' = Remove(deployments, bot)
          /\ last' = Resp("deleteRecord", bot, 200)

\* ------------------------------------------------------------------- admin
TopupSteps == << "update", "insertTx", "select" >>

TopupRejectedZeroOnly(amount) == amount = 0

TopupRejected(amount) == amount = 0 \/ amount <= 0

Topup(username, amount, fault) ==
  LET ran(s) == Done(TopupSteps, fault, s) IN
  /\ Clock
  /\ UNCHANGED << nextUserId, deployments, nextBot, payment_requests, nextPrId,
                  procs, dirs >>
  /\ IF TopupRejected(amount)
     THEN /\ NoFault(fault)
          /\ last' = Resp("topup", username, 400)
          /\ UNCHANGED << users, transactions >>
     ELSE IF UserByName(username) = {}
     THEN /\ NoFault(fault)
          /\ last' = Resp("topup", username, 404)
          /\ UNCHANGED << users, transactions >>
     ELSE LET uid == CHOOSE u \in UserByName(username) : TRUE IN
          /\ Len(transactions) < MaxTx
          /\ Inject(fault)
          /\ users' = IF ran("update")
                      THEN [users EXCEPT ![uid].coins = @ + amount]
                      ELSE users
          /\ transactions' = IF ran("insertTx")
                             THEN Append(transactions, Tx(uid, amount, "topup"))
                             ELSE transactions
          /\ last' = IF fault = "none"
                     THEN [Resp("topup", username, 200) EXCEPT !.coins = users'[uid].coins]
                     ELSE Failed("topup", username, 500, fault)

DeleteUserSteps ==
  << "pm2delete", "deleteTx", "deleteDeployments", "deletePr", "deleteUser" >>

SelectTxAll(txs, uid) == << >>

RECURSIVE SelectTx(_, _)
SelectTx(txs, uid) ==
  IF txs = << >> THEN << >>
  ELSE IF Head(txs).user_id = uid THEN SelectTx(Tail(txs), uid)
  ELSE << Head(txs) >> \o SelectTx(Tail(txs), uid)

\* DELETE /admin/users/:username.  An error of a pm2 call is swallowed.
DeleteUser(username, fault) ==
  LET ran(s) == Done(DeleteUserSteps, fault, s) \/ fault = "pm2delete" IN
  /\ Clock
  /\ UNCHANGED << nextUserId, nextBot, nextPrId, dirs >>
  /\ IF UserByName(username) = {}
     THEN /\ NoFault(fault)
          /\ last' = Resp("deleteUser", username, 404)
          /\ UNCHANGED << users, deployments, transactions, payment_requests, procs >>
     ELSE LET uid == CHOOSE u \in UserByName(username) : TRUE
              running == RunningOf(deployments, uid)
          IN
          /\ Inject(fault)
          /\ procs' = IF fault = "pm2delete" THEN procs
                      ELSE procs \ { Pm2Name(deployments[b]) : b \in running }
          /\ transactions' = IF ran("deleteTx")
                             THEN SelectTx(transactions, uid) ELSE transactions
          /\ deployments' =
               IF ran("deleteDeployments")
               THEN [b \in { x \in DOMAIN deployments : deployments[x].user_id # uid }
                       |-> deployments[b]]
               ELSE deployments
          /\ payment_requests' =
               IF ran("deletePr")
               THEN [r \in { x \in DOMAIN payment_requests :
                               payment_requests[x].user_id # uid }
                       |-> payment_requests[r]]
               ELSE payment_requests
          /\ users' = IF ran("deleteUser") THEN Remove(users, uid) ELSE users
          /\ last' = Failed("deleteUser", username,
                            IF fault \in {"none", "pm2delete"} THEN 200 ELSE 500, fault)

\* -------------------------------------------------------- payment requests
PendingOfNone(uid) == {}

PendingOf(uid) ==
  { r \in DOMAIN payment_requests :
      payment_requests[r].user_id = uid /\ payment_requests[r].status = "pending" }

\* POST /payment-requests (package and amount_usd are given)
Submit(uid, coins) ==
  /\ Clock
  /\ UNCHANGED << users, nextUserId, deployments, nextBot, transactions, procs,
                  dirs, faults >>
  /\ IF uid = 0 \/ coins = 0
     THEN /\ last' = Resp("submit", uid, 400)
          /\ UNCHANGED << payment_requests, nextPrId >>
     ELSE IF uid \notin DOMAIN users
     THEN /\ last' = Resp("submit", uid, 404)
          /\ UNCHANGED << payment_requests, nextPrId >>
     ELSE IF PendingOf(uid) # {}
     THEN /\ last' = Resp("submit", uid, 409)
          /\ UNCHANGED << payment_requests, nextPrId >>
     ELSE /\ nextPrId <= MaxPr
          /\ payment_requests' = payment_requests @@
               (nextPrId :> [user_id |-> uid, coins |-> coins,
                             status |-> "pending", reviewed_at |-> NULL])
          /\ nextPrId' = nextPrId + 1
          /\ last' = Resp("submit", uid, 200)

ApproveSteps == << "updatePr", "credit", "insertTx" >>

AlreadyReviewedNever(pr) == FALSE

AlreadyReviewed(pr) == pr.status # "pending"

ReviewedNoStamp(prs, id, status) == [prs EXCEPT ![id].status = status]

Reviewed(prs, id, status) ==
  [prs EXCEPT ![id].status = status, ![id].reviewed_at = now']

Approve(id, fault) ==
  LET ran(s) == Done(ApproveSteps, fault, s) IN
  /\ Clock
  /\ UNCHANGED << nextUserId, deployments, nextBot, nextPrId, procs, dirs >>
  /\ IF id \notin DOMAIN payment_requests
     THEN /\ NoFault(fault)
          /\ last' = Resp("approve", id, 404)
          /\ UNCHANGED << users, transactions, payment_requests >>
     ELSE IF AlreadyReviewed(payment_requests[id])
     THEN /\ NoFault(fault)
          /\ last' = Resp("approve", id, 400)
          /\ UNCHANGED << users, transactions, payment_requests >>
     ELSE LET pr == payment_requests[id] IN
          /\ Len(transactions) < MaxTx
          /\ Inject(fault)
          /\ payment_requests' = IF ran("updatePr")
                                 THEN Reviewed(payment_requests, id, "approved")
                                 ELSE payment_requests
          /\ users' = IF ran("credit") /\ pr.user_id \in DOMAIN users
                      THEN [users EXCEPT ![pr.user_id].coins = @ + pr.coins]
                      ELSE users
          /\ transactions' = IF ran("insertTx")
                             THEN Append(transactions, Tx(pr.user_id, pr.coins, "topup"))
                             ELSE transactions
          /\ last' = Failed("approve", id, IF fault = "none" THEN 200 ELSE 500, fault)

Reject(id) ==
  /\ Clock
  /\ UNCHANGED << users, nextUserId, deployments, nextBot, transactions, nextPrId,
                  procs, dirs, faults >>
  /\ IF id \notin DOMAIN payment_requests
     THEN /\ last' = Resp("reject", id, 404)
          /\ UNCHANGED payment_requests
     ELSE IF AlreadyReviewed(payment_requests[id])
     THEN /\ last' = Resp("reject", id, 400)
          /\ UNCHANGED payment_requests
     ELSE /\ payment_requests' = Reviewed(payment_requests, id, "rejected")
          /\ last' = Resp("reject", id, 200)

\* -------------------------------------------------------------------- cron
RECURSIVE Ascending(_)
Ascending(S) ==
  IF S = {} THEN << >>
  ELSE LET m == CHOOSE x \in S : \A y \in S : x <= y
       IN << m >> \o Ascending(S \ {m})

\* The rows of the SELECT ... JOIN: the running deployments with their owner's
\* balance as it is when the job starts.
CronSnapshot ==
  LET ids == { b \in DOMAIN deployments :
                 /\ deployments[b].status = "running"
                 /\ deployments[b].user_id \in DOMAIN users }
      order == Ascending(ids)
  IN [i \in 1..Len(order) |->
        [bot |-> order[i],
         uid |-> deployments[order[i]].user_id,
         app_name |-> deployments[order[i]].app_name,
         coins |-> users[deployments[order[i]].user_id].coins]]

CronChargesInclusive(row) == ~(row.coins <= DAILY_COIN_COST)

CronChargesAlways(row) == TRUE

CronCharges(row) == ~(row.coins < DAILY_COIN_COST)

CronDebitFree(coins) == coins

CronDebit(coins) == coins - DAILY_COIN_COST

\* The loop of the job over `rows`.  st holds the tables, the number of
\* database statements run so far and whether one has thrown; failAt is the
\* ordinal of the statement that throws (0: none), pmFail whether pm2 fails.
RECURSIVE CronLoop(_, _, _, _)
CronLoop(rows, st, failAt, pmFail) ==
  IF rows = << >> \/ st.thrown THEN st
  ELSE
    LET row == Head(rows)
        n == st.writes
    IN
    IF ~CronCharges(row)
    THEN LET p == IF pmFail THEN st.procs ELSE st.procs \ {row.app_name} IN
         IF failAt = n + 1
         THEN [st EXCEPT !.procs = p, !.thrown = TRUE]
         ELSE CronLoop(Tail(rows),
                [st EXCEPT !.procs = p, !.writes = n + 1,
                           !.deployments = MarkStopped(@, row.bot, StoppedNoCoins)],
                failAt, pmFail)
    ELSE IF failAt = n + 1
         THEN [st EXCEPT !.thrown = TRUE]
         ELSE LET debited == [st.users EXCEPT ![row.uid].coins = CronDebit(@)] IN
              IF failAt = n + 2
              THEN [st EXCEPT !.users = debited, !.thrown = TRUE]
              ELSE CronLoop(Tail(rows),
                     [st EXCEPT !.users = debited, !.writes = n + 2,
                                !.transactions =
                                   Append(@, Tx(row.uid, -DAILY_COIN_COST, "daily"))],
                     failAt, pmFail)

Cron(failAt, pmFail) ==
  LET rows == CronSnapshot
      st0 == [users |-> users, transactions |-> transactions,
              deployments |-> deployments, procs |-> procs,
              writes |-> 0, thrown |-> FALSE]
      st == CronLoop(rows, st0, failAt, pmFail)
  IN
  /\ Clock
  /\ Len(st.transactions) <= MaxTx
  /\ st.thrown <=> failAt # 0
  /\ pmFail => failAt = 0 /\ \E i \in 1..Len(rows) : ~CronCharges(rows[i])
  /\ IF failAt # 0 \/ pmFail
     THEN faults < MaxFaults /\ faults' = faults + 1
     ELSE UNCHANGED faults
  /\ users' = st.users
  /\ transactions' = st.transactions
  /\ deployments' = st.deployments
  /\ procs' = st.procs
  /\ last' = Failed("cron", 0, IF st.thrown THEN 500 ELSE 200,
                    IF pmFail THEN "pm2delete" ELSE IF st.thrown THEN "db" ELSE "none")
  /\ UNCHANGED << nextUserId, nextBot, payment_requests, nextPrId, dirs >>

\* ----------------------------------------------------------- specifications
\* The deployment lifecycle and the ledger when every statement succeeds.
Next ==
  \/ /\ \E form \in RegForms : Register(form, "none")
     /\ UNCHANGED mock
  \/ /\ \E uid \in 0..MaxUsers, s \in SessionIds, a \in AppNames :
          Deploy(uid, s, a, "none", FALSE)
     /\ UNCHANGED mock
  \/ /\ \E bot \in BotIds : Stop(bot, "none")
     /\ UNCHANGED mock
  \/ /\ \E bot \in BotIds : AdminStop(bot, "none")
     /\ UNCHANGED mock
  \/ /\ \E bot \in BotIds : DeleteRecord(bot)
     /\ UNCHANGED mock
  \/ /\ \E u \in Usernames, amount \in TopupAmounts : Topup(u, amount, "none")
     /\ UNCHANGED mock
  \/ /\ \E u \in Usernames : DeleteUser(u, "none")
     /\ UNCHANGED mock
  \/ /\ Cron(0, FALSE)
     /\ UNCHANGED mock

Spec == Init /\ [][Next]_vars

\* Deploy, stop and billing when a statement may throw or the process may die
\* (at most MaxFaults times in a behaviour).
NextFaults ==
  \/ /\ \E form \in RegForms, fault \in Faults(RegisterSteps) : Register(form, fault)
     /\ UNCHANGED mock
  \/ /\ \E uid \in 0..MaxUsers, s \in SessionIds, a \in AppNames,
           fault \in Faults(DeploySteps), crash \in BOOLEAN :
          Deploy(uid, s, a, fault, crash)
     /\ UNCHANGED mock
  \/ /\ \E bot \in BotIds, fault \in Faults(StopSteps) : Stop(bot, fault)
     /\ UNCHANGED mock
  \/ /\ \E bot \in BotIds, fault \in Faults(StopSteps) : AdminStop(bot, fault)
     /\ UNCHANGED mock
  \/ /\ \E failAt \in 0..(2 * MaxBots), pmFail \in BOOLEAN : Cron(failAt, pmFail)
     /\ UNCHANGED mock

SpecFaults == Init /\ [][NextFaults]_vars

\* Billing over time: cron.schedule('0 0 * * *', ...) fires the job at every
\* midnight for as long as the process runs, hence the weak fairness of Cron.
\* The transactions table of the model holds MaxTx rows: a request that
\* appends a row is served only while the table keeps room for the charges
\* the job has yet to make for the running deployments, so that the job is
\* never held up by the bound.
RECURSIVE Owed(_)
Owed(S) ==
  IF S = {} THEN 0
  ELSE LET u == CHOOSE x \in S : TRUE IN
       (IF RunningOf(deployments, u) # {} /\ users[u].coins > 0
        THEN users[u].coins \div DAILY_COIN_COST ELSE 0)
       + Owed(S \ {u})

Reserve == Len(transactions) + Owed(DOMAIN users) <= MaxTx

NextBilling ==
  \/ /\ (\E form \in RegForms : Register(form, "none")) /\ Reserve'
     /\ UNCHANGED mock
  \/ /\ (\E uid \in 0..MaxUsers, s \in SessionIds, a \in AppNames :
           Deploy(uid, s, a, "none", FALSE)) /\ Reserve'
     /\ UNCHANGED mock
  \/ /\ \E bot \in BotIds : Stop(bot, "none")
     /\ UNCHANGED mock
  \/ /\ (\E u \in Usernames, amount \in TopupAmounts : Topup(u, amount, "none"))
          /\ Reserve'
     /\ UNCHANGED mock
  \/ /\ Cron(0, FALSE)
     /\ UNCHANGED mock

SpecBilling ==
  Init /\ [][NextBilling]_vars /\ WF_vars(Cron(0, FALSE) /\ UNCHANGED mock)

\* Payment requests: submit, approve (whose statements may throw) and reject,
\* with registration and user deletion.
NextPayments ==
  \/ /\ \E form \in RegForms : Register(form, "none")
     /\ UNCHANGED mock
  \/ /\ \E uid \in 0..MaxUsers, coins \in PrCoins : Submit(uid, coins)
     /\ UNCHANGED mock
  \/ /\ \E id \in PrIds, fault \in Faults(ApproveSteps) : Approve(id, fault)
     /\ UNCHANGED mock
  \/ /\ \E id \in PrIds : Reject(id)
     /\ UNCHANGED mock
  \/ /\ \E u \in Usernames : DeleteUser(u, "none")
     /\ UNCHANGED mock

SpecPayments == Init /\ [][NextPayments]_vars

\* What a deployment record keeps of the session secret.
NextPreview ==
  \/ /\ \E form \in RegForms : Register(form, "none")
     /\ UNCHANGED mock
  \/ /\ \E uid \in 0..MaxUsers, s \in Secrets \cup {""}, a \in AppNames :
          Deploy(uid, s, a, "none", FALSE)
     /\ UNCHANGED mock
  \/ /\ \E bot \in BotIds : Stop(bot, "none")
     /\ UNCHANGED mock

SpecPreview == Init /\ [][NextPreview]_vars

\* Stop requests that come through the panel gateway.
NextGateway ==
  \/ /\ \E form \in RegForms : Register(form, "none")
     /\ UNCHANGED mock
  \/ /\ \E uid \in 0..MaxUsers, s \in SessionIds, a \in AppNames :
          Deploy(uid, s, a, "none", FALSE)
     /\ UNCHANGED mock
  \/ /\ \E uid \in 0..MaxUsers, bot \in BotIds : ApiStop(uid, bot, "none")
     /\ UNCHANGED mock

SpecGateway == Init /\ [][NextGateway]_vars

\* Accounts with deployments and payment requests, and their deletion.
NextAccounts ==
  \/ /\ \E form \in RegForms : Register(form, "none")
     /\ UNCHANGED mock
  \/ /\ \E uid \in 0..MaxUsers, s \in SessionIds, a \in AppNames :
          Deploy(uid, s, a, "none", FALSE)
     /\ UNCHANGED mock
  \/ /\ \E bot \in BotIds : Stop(bot, "none")
     /\ UNCHANGED mock
  \/ /\ \E uid \in 0..MaxUsers, coins \in PrCoins : Submit(uid, coins)
     /\ UNCHANGED mock
  \/ /\ \E id \in PrIds : Approve(id, "none")
     /\ UNCHANGED mock
  \/ /\ \E u \in Usernames : DeleteUser(u, "none")
     /\ UNCHANGED mock

SpecAccounts == Init /\ [][NextAccounts]_vars

\* ------------------------------------------------- in-memory mock server
\* src/mock-server.js keeps users, deployments, transactions and
\* paymentRequests in memory.  mock.status is the HTTP status of its last
\* response.  Two deploys are not served in the same millisecond, so
\* 'bot-' + Date.now() is fresh and is numbered like the server's handles.
MockAnswer(status) == mock' = [mock EXCEPT !.status = status]

MOCK_DEPLOY_COST == 1

\* POST /register (name and password are well-formed)
MockRegister(form) ==
  IF ~ValidUsername(form.username)
  THEN MockAnswer(400)
  ELSE IF \E u \in DOMAIN mock.users : mock.users[u].username = form.username
            \/ mock.users[u].email = form.email
  THEN MockAnswer(409)
  ELSE mock' = [mock EXCEPT
                  !.users = @ @@ (mock.nextId :> [username |-> form.username,
                                                  email |-> form.email,
                                                  coins |-> 0]),
                  !.nextId = @ + 1,
                  !.status = 200]

\* POST /deploy; a sessionId of "" is a string, whose substring is taken
MockDeploy(uid, sessionId, appName) ==
  IF uid \notin DOMAIN mock.users
  THEN MockAnswer(404)
  ELSE IF mock.users[uid].coins < MOCK_DEPLOY_COST
  THEN MockAnswer(402)
  ELSE IF RunningOf(mock.deployments, uid) # {}
  THEN MockAnswer(409)
  ELSE /\ mock.nextBot <= MaxBots
       /\ Len(mock.transactions) < MaxTx
       /\ mock' = [mock EXCEPT
            !.deployments = @ @@ (mock.nextBot :>
               DeployRow(uid, AppName(appName, mock.users[uid]), sessionId)),
            !.nextBot = @ + 1,
            !.users[uid].coins = @ - MOCK_DEPLOY_COST,
            !.transactions = Append(@, Tx(uid, -MOCK_DEPLOY_COST, "deploy")),
            !.status = 200]

\* DELETE /deploy/:botId and DELETE /admin/deployments/:botId
MockStopHandler(bot, status) ==
  IF bot \notin DOMAIN mock.deployments
  THEN MockAnswer(404)
  ELSE mock' = [mock EXCEPT !.deployments[bot].status = status,
                            !.deployments[bot].stopped_at = now',
                            !.status = 200]

MockStop(bot) == MockStopHandler(bot, "stopped")

MockAdminStop(bot) == MockStopHandler(bot, "stopped_by_admin")

\* POST /admin/users/:username/topup
MockTopup(username, amount) ==
  LET found == { u \in DOMAIN mock.users : mock.users[u].username = username } IN
  IF amount = 0 \/ amount <= 0
  THEN MockAnswer(400)
  ELSE IF found = {}
  THEN MockAnswer(404)
  ELSE LET uid == CHOOSE u \in found : TRUE IN
       /\ Len(mock.transactions) < MaxTx
       /\ mock' = [mock EXCEPT
            !.users[uid].coins = @ + amount,
            !.transactions = Append(@, Tx(uid, amount, "topup")),
            !.status = 200]

\* POST /payment-requests (package and amount_usd are given)
MockSubmit(uid, coins) ==
  IF uid = 0 \/ coins = 0
  THEN MockAnswer(400)
  ELSE IF \E r \in DOMAIN mock.paymentRequests :
            /\ mock.paymentRequests[r].user_id = uid
            /\ mock.paymentRequests[r].status = "pending"
  THEN MockAnswer(409)
  ELSE /\ mock.nextPrId <= MaxPr
       /\ mock' = [mock EXCEPT
            !.paymentRequests = @ @@ (mock.nextPrId :>
               [user_id |-> uid, coins |-> coins, status |-> "pending",
                reviewed_at |-> NULL]),
            !.nextPrId = @ + 1,
            !.status = 200]

\* POST /admin/payment-requests/:id/approve
MockApprove(id) ==
  IF id \notin DOMAIN mock.paymentRequests
  THEN MockAnswer(404)
  ELSE IF mock.paymentRequests[id].status # "pending"
  THEN MockAnswer(400)
  ELSE LET pr == mock.paymentRequests[id]
           reviewed == [mock EXCEPT !.paymentRequests[id].status = "approved",
                                    !.paymentRequests[id].reviewed_at = now',
                                    !.status = 200]
       IN
       IF pr.user_id \in DOMAIN mock.users
       THEN /\ Len(mock.transactions) < MaxTx
            /\ mock' = [reviewed EXCEPT
                 !.users[pr.user_id].coins = @ + pr.coins,
                 !.transactions = Append(@, Tx(pr.user_id, pr.coins, "topup"))]
       ELSE mock' = reviewed

\* POST /admin/payment-requests/:id/reject
MockReject(id) ==
  IF id \notin DOMAIN mock.paymentRequests
  THEN MockAnswer(404)
  ELSE IF mock.paymentRequests[id].status # "pending"
  THEN MockAnswer(400)
  ELSE mock' = [mock EXCEPT !.paymentRequests[id].status = "rejected",
                            !.paymentRequests[id].reviewed_at = now',
                            !.status = 200]

\* The same request is served by the server of src/vps/server.js and by the
\* mock, every statement of the server succeeding.
\* requests of one account: its registration, a malformed registration, and
\* the calls made with its id, with no id, and with its name
MockForms == { f \in RegForms : f.username # "bob" }

MockCallers == { 0, 1 }

MockAmounts == { 0, 2 }

\* The lockstep runs hold at most MockBots deployments, MockPr payment
\* requests and MockTx transactions in either store.
MockBots == 1
MockPr   == 1
MockTx   == 3

MockScope ==
  /\ nextBot <= MockBots + 1 /\ mock.nextBot <= MockBots + 1
  /\ nextPrId <= MockPr + 1 /\ mock.nextPrId <= MockPr + 1
  /\ Len(transactions) <= MockTx /\ Len(mock.transactions) <= MockTx

NextMock ==
  \/ /\ \E form \in MockForms : Register(form, "none") /\ MockRegister(form)
     /\ MockScope'
  \/ /\ \E uid \in MockCallers, s \in SessionIds, a \in AppNames :
          Deploy(uid, s, a, "none", FALSE) /\ MockDeploy(uid, s, a)
     /\ MockScope'
  \/ /\ \E bot \in BotIds : Stop(bot, "none") /\ MockStop(bot)
     /\ MockScope'
  \/ /\ \E bot \in BotIds : AdminStop(bot, "none") /\ MockAdminStop(bot)
     /\ MockScope'
  \/ /\ \E amount \in MockAmounts :
          Topup("alice", amount, "none") /\ MockTopup("alice", amount)
     /\ MockScope'
  \/ /\ \E uid \in MockCallers, coins \in MockAmounts :
          Submit(uid, coins) /\ MockSubmit(uid, coins)
     /\ MockScope'
  \/ /\ \E id \in PrIds : Approve(id, "none") /\ MockApprove(id)
     /\ MockScope'
  \/ /\ \E id \in PrIds : Reject(id) /\ MockReject(id)
     /\ MockScope'

SpecMock == Init /\ [][NextMock]_vars

\* ------------------------------------------------------------------ claims
Ledger == << users, transactions, deployments >>

RECURSIVE SumAmounts(_, _)
SumAmounts(txs, uid) ==
  IF txs = << >> THEN 0
  ELSE (IF Head(txs).user_id = uid THEN Head(txs).amount ELSE 0)
       + SumAmounts(Tail(txs), uid)

TxOf(uid, type) ==
  { i \in 1..Len(transactions) :
      transactions[i].user_id = uid /\ transactions[i].type = type }

DeployOf(r, uid) == r.op = "deploy" /\ r.arg = uid

OtherRowsKept(b) ==
  \A x \in DOMAIN deployments : x # b => x \in DOMAIN deployments'
                                        /\ deployments'[x] = deployments[x]

OtherUsersKept(uid) ==
  /\ DOMAIN users' = DOMAIN users
  /\ \A v \in DOMAIN users : v # uid => users'[v] = users[v]

\* C1: in every reachable state every user owns at most one deployment with
\* status running.
C1_AtMostOneRunning ==
  \A uid \in UserIds :
    Cardinality({ b \in DOMAIN deployments :
                    deployments[b].user_id = uid
                    /\ deployments[b].status = "running" }) <= 1

\* A second deploy of a user who has a running deployment was answered 409.
C1_Witness ==
  /\ last.op = "deploy" /\ last.status = 409
  /\ \E b \in DOMAIN deployments :
       deployments[b].user_id = last.arg /\ deployments[b].status = "running"
  /\ \E b \in DOMAIN deployments :
       deployments[b].user_id = last.arg /\ deployments[b].status # "running"

\* C2: between two operations the amounts of a user's transactions sum to the
\* user's balance.
C2_LedgerMatchesBalance ==
  \A uid \in DOMAIN users : SumAmounts(transactions, uid) = users[uid].coins

\* C3: of two well-formed deploy calls for the same user served back to back,
\* the user having no running deployment and at least twice the daily cost,
\* the first succeeds and debits the daily cost with one deploy transaction,
\* and the second is answered 409 and changes neither balance, transactions
\* nor deployments.
C3_ConcurrentDeploys ==
  [][ \A uid \in DOMAIN users :
        /\ ( /\ DeployOf(last', uid) /\ last'.status # 400
             /\ users[uid].coins >= 2 * DAILY_COIN_COST
             /\ \A b \in DOMAIN deployments :
                  deployments[b].user_id = uid => deployments[b].status # "running" )
           => /\ last'.status = 200
              /\ users'[uid].coins = users[uid].coins - DAILY_COIN_COST
              /\ Len(transactions') = Len(transactions) + 1
              /\ transactions'[Len(transactions')].type = "deploy"
        /\ ( /\ DeployOf(last, uid) /\ last.status = 200
             /\ users[uid].coins >= DAILY_COIN_COST
             /\ DeployOf(last', uid) /\ last'.status # 400 )
           => /\ last'.status = 409
              /\ last'.botId = last.botId
              /\ UNCHANGED Ledger
              /\ Cardinality(RunningOf(deployments', uid)) = 1
    ]_vars

\* Register, deploy, deploy: the second deploy was refused and one charge made.
C3_Witness ==
  /\ last.op = "deploy" /\ last.status = 409
  /\ last.arg \in DOMAIN users
  /\ users[last.arg].coins = WELCOME_BONUS - DAILY_COIN_COST
  /\ Cardinality(TxOf(last.arg, "deploy")) = 1
  /\ last.botId \in DOMAIN deployments
  /\ deployments[last.botId].status = "running"

\* C4: a deploy answered 200 found the balance at least the daily cost and no
\* running deployment, debits exactly the daily cost, appends exactly one
\* deploy transaction of minus the daily cost, inserts exactly one running
\* deployment of that user under a new handle, and returns the handle and
\* the balance that remains.
C4_DeployEffect ==
  [][ \A uid \in UserIds :
        (DeployOf(last', uid) /\ last'.status = 200)
        => /\ uid \in DOMAIN users
           /\ users[uid].coins >= DAILY_COIN_COST
           /\ \A b \in DOMAIN deployments :
                deployments[b].user_id = uid => deployments[b].status # "running"
           /\ users'[uid].coins = users[uid].coins - DAILY_COIN_COST
           /\ OtherUsersKept(uid)
           /\ transactions' = transactions \o
                << [user_id |-> uid, amount |-> 0 - DAILY_COIN_COST, type |-> "deploy"] >>
           /\ last'.botId \notin DOMAIN deployments
           /\ DOMAIN deployments' = DOMAIN deployments \cup {last'.botId}
           /\ deployments'[last'.botId].user_id = uid
           /\ deployments'[last'.botId].status = "running"
           /\ OtherRowsKept(last'.botId)
           /\ last'.coins = users[uid].coins - DAILY_COIN_COST
    ]_vars

C4_Witness ==
  /\ last.op = "deploy" /\ last.status = 200
  /\ last.botId \in DOMAIN deployments
  /\ last.coins = WELCOME_BONUS - DAILY_COIN_COST

\* C5: a well-formed deploy of a user whose balance is below the daily cost is
\* answered 402 and changes no table, starts no process and creates no
\* working tree; with a balance equal to the daily cost and no running
\* deployment it succeeds and leaves balance 0.
C5_FundsBoundary ==
  [][ \A uid \in DOMAIN users :
        (DeployOf(last', uid) /\ last'.status # 400)
        => /\ users[uid].coins < DAILY_COIN_COST
              => /\ last'.status = 402
                 /\ UNCHANGED << db, procs, dirs, nextBot >>
           /\ ( /\ users[uid].coins = DAILY_COIN_COST
                /\ RunningOf(deployments, uid) = {} )
              => /\ last'.status = 200
                 /\ users'[uid].coins = 0
           /\ last'.status = 402 => users[uid].coins < DAILY_COIN_COST
    ]_vars

\* A deploy that left balance 0 is in the ledger, and a later deploy of the
\* same user was refused with 402.
C5_Witness ==
  /\ last.op = "deploy" /\ last.status = 402
  /\ last.arg \in DOMAIN users
  /\ users[last.arg].coins = DAILY_COIN_COST - 1
  /\ \E i \in 1..Len(transactions) :
       /\ transactions[i].user_id = last.arg
       /\ transactions[i].type = "deploy"
       /\ SumAmounts(SubSeq(transactions, 1, i), last.arg) = 0

\* C6: a deploy in which a provisioning statement before the commit throws
\* (mkdir, rsync, symlink, the two descriptor writes, pm2 start, pm2 save) is
\* answered 500 and leaves balances, transactions and deployments unchanged.
ProvisioningSteps ==
  { "mkdir", "rsync", "symlink", "env", "ecosystem", "pm2start", "pm2save" }

C6_ProvisioningRollback ==
  [][ ( /\ last'.op = "deploy"
        /\ last'.fault \in ProvisioningSteps
        /\ last'.status # 0 )
      => /\ last'.status = 500
         /\ UNCHANGED Ledger
    ]_vars

C6_Witness ==
  /\ last.op = "deploy" /\ last.fault = "pm2save" /\ last.status = 500
  /\ last.arg \in DOMAIN users
  /\ users[last.arg].coins = WELCOME_BONUS

\* C7: the three writes of a deploy are all-or-nothing: a deploy step either
\* debits, appends the deploy transaction and inserts the running deployment,
\* or does none of the three.
C7_DeployAtomic ==
  [][ last'.op = "deploy"
      => \/ UNCHANGED Ledger
         \/ /\ users' # users
            /\ Len(transactions') = Len(transactions) + 1
            /\ DOMAIN deployments' # DOMAIN deployments
    ]_vars

\* C8: a stop (by the user or the admin) of a deployment that is not running
\* is answered 200 and leaves its status and stopped_at as they were.
C8_StopIdempotent ==
  [][ \A b \in DOMAIN deployments :
        ( /\ last'.op \in {"stop", "adminStop"} /\ last'.arg = b
          /\ deployments[b].status # "running" )
        => /\ last'.status = 200
           /\ deployments'[b].status = deployments[b].status
           /\ deployments'[b].stopped_at = deployments[b].stopped_at
    ]_vars

\* C9: a stop of a running deployment sets stopped_at and the status of its
\* initiator (user: stopped, admin: stopped_by_admin, billing job:
\* stopped_no_coins); a stop of an unknown handle is answered 404 and changes
\* nothing.
C9_StopStatus ==
  [][ /\ \A b \in BotIds :
           (last'.op \in {"stop", "adminStop"} /\ last'.arg = b)
           => IF b \in DOMAIN deployments
              THEN /\ last'.status = 200
                   /\ deployments[b].status = "running"
                      => /\ deployments'[b].status =
                              (IF last'.op = "stop" THEN "stopped" ELSE "stopped_by_admin")
                         /\ deployments'[b].stopped_at = now'
                         /\ deployments'[b].stopped_at # NULL
                   /\ OtherRowsKept(b)
              ELSE /\ last'.status = 404
                   /\ UNCHANGED << db, procs, dirs >>
      /\ last'.op = "cron"
         => \A b \in DOMAIN deployments :
              ( /\ deployments[b].status = "running"
                /\ deployments[b].user_id \in DOMAIN users
                /\ users[deployments[b].user_id].coins < DAILY_COIN_COST )
              => /\ deployments'[b].status = "stopped_no_coins"
                 /\ deployments'[b].stopped_at = now'
      /\ \A b \in DOMAIN deployments :
           ( /\ b \in DOMAIN deployments'
             /\ deployments[b].status = "running"
             /\ deployments'[b].status # "running" )
           => deployments'[b].status =
                 ( IF last'.op = "stop" THEN "stopped"
                   ELSE IF last'.op = "adminStop" THEN "stopped_by_admin"
                   ELSE "stopped_no_coins" )
    ]_vars

\* The billing job has stopped a deployment whose owner ran out of coins, and
\* another deployment was stopped through a request.
C9_Witness ==
  /\ last.op = "cron"
  /\ \E b \in DOMAIN deployments :
       /\ deployments[b].status = "stopped_no_coins"
       /\ deployments[b].stopped_at = now
  /\ \E b \in DOMAIN deployments :
       deployments[b].status \in {"stopped", "stopped_by_admin"}

\* C10: an error of the supervisor while a running deployment is stopped (by
\* the user, the admin or the billing job) does not keep the deployment
\* running, and the stop request is still answered 200.
C10_DeregistrationBestEffort ==
  [][ /\ \A b \in DOMAIN deployments :
           ( /\ last'.op \in {"stop", "adminStop"} /\ last'.arg = b
             /\ last'.fault \in {"pm2delete", "pm2save"}
             /\ deployments[b].status = "running" )
           => /\ deployments'[b].status # "running"
              /\ deployments'[b].stopped_at # NULL
              /\ last'.status = 200
      /\ (last'.op = "cron" /\ last'.fault = "pm2delete")
         => /\ \E b \in DOMAIN deployments :
                 deployments[b].status = "running"
                 /\ users[deployments[b].user_id].coins < DAILY_COIN_COST
            /\ \A b \in DOMAIN deployments :
                 ( /\ deployments[b].status = "running"
                   /\ users[deployments[b].user_id].coins < DAILY_COIN_COST )
                 => deployments'[b].status = "stopped_no_coins"
    ]_vars

\* pm2 delete failed while the user stopped a running deployment: the process
\* is still registered and the deployment is stopped.
C10_Witness ==
  /\ last.op = "stop" /\ last.fault = "pm2delete" /\ last.status = 200
  /\ last.arg \in DOMAIN deployments
  /\ deployments[last.arg].status = "stopped"
  /\ deployments[last.arg].app_name \in procs

\* ---------------------------------------------------------- billing claims
\* The positions of the transactions of user uid that a step appends.
NewTxOf(uid) ==
  { i \in (Len(transactions) + 1)..Len(transactions') :
      transactions'[i].user_id = uid }

Appended == Len(transactions') >= Len(transactions)
            /\ SubSeq(transactions', 1, Len(transactions)) = transactions

RunningAtStart == { b \in DOMAIN deployments : deployments[b].status = "running" }

\* C11: one run of the billing job handles every deployment that is running
\* when it starts: when the owner's balance is below the daily cost the
\* deployment becomes stopped_no_coins with stopped_at set, the balance stays
\* and no transaction is created; otherwise the balance decreases by exactly
\* the daily cost, exactly one daily transaction of minus the daily cost is
\* appended and the deployment stays running.  Deployments that are not
\* running are neither charged nor changed.
C11_BillingRun ==
  [][ last'.op = "cron"
      => /\ DOMAIN deployments' = DOMAIN deployments
         /\ DOMAIN users' = DOMAIN users
         /\ Appended
         /\ \A b \in RunningAtStart :
              LET uid == deployments[b].user_id IN
              /\ uid \in DOMAIN users
              /\ IF users[uid].coins < DAILY_COIN_COST
                 THEN /\ deployments'[b].status = "stopped_no_coins"
                      /\ deployments'[b].stopped_at = now'
                      /\ deployments'[b].stopped_at # NULL
                      /\ users'[uid] = users[uid]
                      /\ NewTxOf(uid) = {}
                 ELSE /\ users'[uid].coins = users[uid].coins - DAILY_COIN_COST
                      /\ Cardinality(NewTxOf(uid)) = 1
                      /\ \A i \in NewTxOf(uid) :
                           /\ transactions'[i].type = "daily"
                           /\ transactions'[i].amount = 0 - DAILY_COIN_COST
                      /\ deployments'[b] = deployments[b]
         /\ \A b \in DOMAIN deployments \ RunningAtStart :
              deployments'[b] = deployments[b]
         /\ \A uid \in DOMAIN users :
              RunningOf(deployments, uid) = {}
              => users'[uid] = users[uid] /\ NewTxOf(uid) = {}
    ]_vars

\* A user deployed with a balance equal to the daily cost (two deploys are in
\* the ledger) and the next run of the job stopped the deployment.
C11_Witness ==
  /\ last.op = "cron" /\ last.status = 200
  /\ \E b \in DOMAIN deployments :
       /\ deployments[b].status = "stopped_no_coins"
       /\ deployments[b].stopped_at = now
       /\ users[deployments[b].user_id].coins = 0
       /\ Cardinality(TxOf(deployments[b].user_id, "deploy")) = 2
       /\ Cardinality(TxOf(deployments[b].user_id, "daily")) = 1

\* C12: a statement that fails while the billing job handles one deployment
\* does not abort the run: every other deployment that was running when the
\* run started is still charged or stopped in that run.
Handled(b) ==
  \/ deployments'[b].status = "stopped_no_coins"
  \/ users'[deployments[b].user_id].coins
       = users[deployments[b].user_id].coins - DAILY_COIN_COST

C12_BatchContinues ==
  [][ (last'.op = "cron" /\ last'.fault # "none")
      => Cardinality({ b \in RunningAtStart : ~Handled(b) }) <= 1
    ]_vars

\* C13: if billing periods keep firing and the owner of a running deployment
\* receives no further credit, the deployment eventually leaves status
\* running; and a run of the job never charges an owner whose balance is
\* below the daily cost.
StillRunning(b) == b \in DOMAIN deployments /\ deployments[b].status = "running"

OwnerCredited(b) ==
  /\ last.op = "topup" /\ last.status = 200
  /\ users[deployments[b].user_id].username = last.arg

C13_OutOfFundsStops ==
  /\ \A b \in BotIds :
       StillRunning(b) ~> (~StillRunning(b) \/ OwnerCredited(b))
  /\ [][ last'.op = "cron"
         => \A uid \in DOMAIN users :
              users[uid].coins < DAILY_COIN_COST
              => users'[uid] = users[uid] /\ NewTxOf(uid) = {}
       ]_vars

\* The job charged a deployment day after day until the welcome bonus was
\* spent, and then stopped it.
C13_Witness ==
  /\ last.op = "cron"
  /\ \E b \in DOMAIN deployments :
       /\ deployments[b].status = "stopped_no_coins"
       /\ users[deployments[b].user_id].coins = 0
       /\ Cardinality(TxOf(deployments[b].user_id, "daily"))
            = WELCOME_BONUS - DAILY_COIN_COST
       /\ TxOf(deployments[b].user_id, "topup") = {}

\* C14: the billing job keeps no mark of the period it has billed: when it
\* runs twice in the same period, a deployment that stays running and whose
\* owner can afford it is debited the daily cost by the second run as well and
\* gets a second daily transaction.
DailyOf(txs, uid) ==
  { i \in 1..Len(txs) : txs[i].user_id = uid /\ txs[i].type = "daily" }

C14_BilledTwice ==
  [][ (last.op = "cron" /\ last'.op = "cron" /\ now' = now)
      => \A b \in RunningAtStart :
           LET uid == deployments[b].user_id IN
           users[uid].coins >= DAILY_COIN_COST
           => /\ deployments'[b].status = "running"
              /\ users'[uid].coins = users[uid].coins - DAILY_COIN_COST
              /\ DailyOf(transactions, uid) # {}
              /\ Cardinality(DailyOf(transactions', uid))
                   = Cardinality(DailyOf(transactions, uid)) + 1
    ]_vars

\* Two runs at the same time have charged a deployment that is still running.
C14_Witness ==
  /\ last.op = "cron" /\ now = 0
  /\ \E b \in DOMAIN deployments :
       /\ deployments[b].status = "running"
       /\ Cardinality(DailyOf(transactions, deployments[b].user_id)) = 2
       /\ users[deployments[b].user_id].coins
            = WELCOME_BONUS - 3 * DAILY_COIN_COST

\* --------------------------------------------------------- payment claims
Pending(prs, uid) ==
  { r \in DOMAIN prs : prs[r].user_id = uid /\ prs[r].status = "pending" }

OtherRequestsKept(id) ==
  \A r \in DOMAIN payment_requests :
    r # id => r \in DOMAIN payment_requests'
              /\ payment_requests'[r] = payment_requests[r]

\* C15: in every reachable state each user has at most one pending payment
\* request: a well-formed submit of a user who has a pending request is
\* answered 409 and creates nothing; otherwise it creates exactly one pending
\* request with reviewed_at unset and touches neither balances, transactions
\* nor deployments.
C15_OnePending ==
  /\ [](\A uid \in UserIds : Cardinality(Pending(payment_requests, uid)) <= 1)
  /\ [][ \A uid \in DOMAIN users :
           (last'.op = "submit" /\ last'.arg = uid /\ last'.status # 400)
           => IF Pending(payment_requests, uid) # {}
              THEN /\ last'.status = 409
                   /\ UNCHANGED << db, nextPrId >>
              ELSE /\ last'.status = 200
                   /\ UNCHANGED Ledger
                   /\ \E id \in DOMAIN payment_requests' \ DOMAIN payment_requests :
                        /\ DOMAIN payment_requests' = DOMAIN payment_requests \cup {id}
                        /\ payment_requests'[id].user_id = uid
                        /\ payment_requests'[id].status = "pending"
                        /\ payment_requests'[id].reviewed_at = NULL
                        /\ OtherRequestsKept(id)
       ]_vars

\* A user with a reviewed request and a pending one submitted again and was
\* refused.
C15_Witness ==
  /\ last.op = "submit" /\ last.status = 409
  /\ Cardinality(Pending(payment_requests, last.arg)) = 1
  /\ \E r \in DOMAIN payment_requests :
       /\ payment_requests[r].user_id = last.arg
       /\ payment_requests[r].status # "pending"

\* C16: approve of a pending request is all-or-nothing: it sets status
\* approved and reviewed_at, adds exactly the request's coins to the owner's
\* balance and appends exactly one topup transaction of that amount for the
\* owner, or it changes nothing; approve of an unknown id is answered 404 and
\* changes nothing.
C16_ApproveAtomic ==
  [][ \A id \in PrIds :
        (last'.op = "approve" /\ last'.arg = id)
        => IF id \notin DOMAIN payment_requests
           THEN last'.status = 404 /\ UNCHANGED db
           ELSE payment_requests[id].status = "pending"
                => LET pr == payment_requests[id] IN
                   \/ /\ last'.status = 200
                      /\ payment_requests'[id].status = "approved"
                      /\ payment_requests'[id].reviewed_at = now'
                      /\ OtherRequestsKept(id)
                      /\ users'[pr.user_id].coins = users[pr.user_id].coins + pr.coins
                      /\ OtherUsersKept(pr.user_id)
                      /\ transactions' = Append(transactions,
                           [user_id |-> pr.user_id, amount |-> pr.coins, type |-> "topup"])
                   \/ /\ last'.status # 200
                      /\ UNCHANGED db
    ]_vars

\* C17: a payment request leaves pending once: a request that is approved or
\* rejected keeps its status and reviewed_at, every later approve or reject
\* of it is refused as already reviewed (400) and changes no table, and a
\* balance changes through an approve only when the request was pending.
C17_ReviewedOnce ==
  /\ [][ \A id \in DOMAIN payment_requests :
           /\ payment_requests[id].status # "pending"
              => /\ id \in DOMAIN payment_requests'
                    => payment_requests'[id] = payment_requests[id]
                 /\ (last'.op \in {"approve", "reject"} /\ last'.arg = id)
                    => last'.status = 400 /\ UNCHANGED db
           /\ (last'.op = "approve" /\ last'.arg = id /\ users' # users)
              => /\ payment_requests[id].status = "pending"
                 /\ payment_requests'[id].status = "approved"
       ]_vars
  /\ [](\A uid \in DOMAIN users :
          Cardinality(TxOf(uid, "topup"))
            <= Cardinality({ r \in DOMAIN payment_requests :
                               /\ payment_requests[r].user_id = uid
                               /\ payment_requests[r].status = "approved" }))

\* A second approve of an approved request was refused; the owner was credited
\* once.
C17_Witness ==
  /\ last.op = "approve" /\ last.status = 400
  /\ last.arg \in DOMAIN payment_requests
  /\ payment_requests[last.arg].status = "approved"
  /\ LET pr == payment_requests[last.arg] IN
     /\ Cardinality(TxOf(pr.user_id, "topup")) = 1
     /\ users[pr.user_id].coins = WELCOME_BONUS + pr.coins

\* C18: reject of a pending request sets status rejected and reviewed_at and
\* leaves every balance and the transactions unchanged.
C18_RejectFrame ==
  [][ \A id \in DOMAIN payment_requests :
        ( /\ last'.op = "reject" /\ last'.arg = id
          /\ payment_requests[id].status = "pending" )
        => /\ last'.status = 200
           /\ payment_requests'[id].status = "rejected"
           /\ payment_requests'[id].reviewed_at = now'
           /\ payment_requests'[id].reviewed_at # NULL
           /\ payment_requests'[id].coins = payment_requests[id].coins
           /\ OtherRequestsKept(id)
           /\ UNCHANGED << users, transactions, deployments >>
    ]_vars

C18_Witness ==
  /\ last.op = "reject" /\ last.status = 200
  /\ last.arg \in DOMAIN payment_requests
  /\ payment_requests[last.arg].status = "rejected"
  /\ payment_requests[last.arg].reviewed_at = now
  /\ users[payment_requests[last.arg].user_id].coins = WELCOME_BONUS

\* ------------------------------------------------- deployment record claims
\* C19: deleteRecord of a running deployment is refused (400, stop the bot
\* first) and changes nothing, of an unknown handle is answered 404, and
\* otherwise removes exactly that deployment and leaves all balances and
\* transactions unchanged.
C19_DeleteRecord ==
  [][ \A b \in BotIds :
        (last'.op = "deleteRecord" /\ last'.arg = b)
        => /\ UNCHANGED << users, transactions, payment_requests, procs, dirs >>
           /\ IF b \notin DOMAIN deployments
              THEN last'.status = 404 /\ UNCHANGED deployments
              ELSE IF deployments[b].status = "running"
              THEN last'.status = 400 /\ UNCHANGED deployments
              ELSE /\ last'.status = 200
                   /\ DOMAIN deployments' = DOMAIN deployments \ {b}
                   /\ OtherRowsKept(b)
    ]_vars

\* A running deployment was refused, and a stopped one of the same user is
\* gone.
C19_Witness ==
  /\ last.op = "deleteRecord" /\ last.status = 400
  /\ last.arg \in DOMAIN deployments
  /\ deployments[last.arg].status = "running"
  /\ \E b \in 1..(nextBot - 1) : b \notin DOMAIN deployments
  /\ Cardinality(TxOf(deployments[last.arg].user_id, "deploy")) = 2

\* C20: no step removes a deployment whose status is running.
C20_NeverRemovedRunning ==
  [][ \A b \in DOMAIN deployments :
        b \notin DOMAIN deployments' => deployments[b].status # "running"
    ]_vars

\* ------------------------------------------------------------ ledger claims
\* C21: transactions are append-only: every step keeps every transaction
\* there is, with its owner, amount and type, and only adds at the end.
C21_AppendOnly == [][Appended]_vars

\* C22: in every reachable state every user's balance is a non-negative
\* integer.
C22_BalanceNonNegative ==
  \A uid \in DOMAIN users : users[uid].coins \in Nat

\* C24: a deploy that debits the user or appends a deploy transaction has
\* registered its process with the supervisor and leaves its working tree in
\* place, whatever statement of it fails.
C24_NoChargeWithoutProcess ==
  [][ \A uid \in DOMAIN users :
        ( /\ DeployOf(last', uid)
          /\ \/ users'[uid].coins # users[uid].coins
             \/ Len(transactions') > Len(transactions) )
        => /\ AppName(NoName, users[uid]) \in procs'
           /\ nextBot \in dirs'
    ]_vars

\* C25: a top-up with a positive amount for an existing user adds exactly the
\* amount to that user's balance, appends exactly one topup transaction of
\* that amount and returns the new balance; with a missing or non-positive
\* amount, or an unknown username, it is refused and changes nothing.
C25_Topup ==
  [][ \A name \in Usernames :
        (last'.op = "topup" /\ last'.arg = name)
        => \/ /\ last'.status = 200
              /\ \E uid \in DOMAIN users, amount \in 1..3 :
                   /\ users[uid].username = name
                   /\ users'[uid].coins = users[uid].coins + amount
                   /\ OtherUsersKept(uid)
                   /\ transactions' = Append(transactions,
                        [user_id |-> uid, amount |-> amount, type |-> "topup"])
                   /\ last'.coins = users[uid].coins + amount
              /\ UNCHANGED << deployments, payment_requests, procs, dirs >>
           \/ /\ last'.status \in {400, 404}
              /\ last'.status = 404
                 => \A uid \in DOMAIN users : users[uid].username # name
              /\ UNCHANGED << db, procs, dirs >>
    ]_vars

\* A user who had spent the welcome bonus down to 2 was topped up by 2.
C25_Witness ==
  /\ last.op = "topup" /\ last.status = 200
  /\ last.coins = WELCOME_BONUS - DAILY_COIN_COST + 2
  /\ \E uid \in DOMAIN users :
       /\ users[uid].username = last.arg
       /\ users[uid].coins = last.coins
       /\ Cardinality(TxOf(uid, "topup")) = 1

\* -------------------------------------------------------- lifecycle claims
\* C26: the status of a deployment is monotone: a deployment that is stopped,
\* stopped_by_admin or stopped_no_coins is never set back to running, and a
\* deployment becomes running only as a new row under a new handle, inserted
\* by a deploy that debits the daily cost and appends a deploy transaction.
C26_StatusMonotone ==
  [][ /\ \A b \in DOMAIN deployments :
           (deployments[b].status # "running" /\ b \in DOMAIN deployments')
           => deployments'[b].status # "running"
      /\ \A b \in DOMAIN deployments' :
           (deployments'[b].status = "running" /\ ~StillRunning(b))
           => LET uid == deployments'[b].user_id IN
              /\ b \notin DOMAIN deployments
              /\ b >= nextBot
              /\ DeployOf(last', uid) /\ last'.status = 200 /\ last'.botId = b
              /\ users'[uid].coins = users[uid].coins - DAILY_COIN_COST
              /\ transactions' = Append(transactions,
                   [user_id |-> uid, amount |-> 0 - DAILY_COIN_COST, type |-> "deploy"])
    ]_vars

\* A user stopped a deployment and deployed anew: the old row is still
\* stopped, the new one runs, and two deploys are in the ledger.
C26_Witness ==
  /\ last.op = "deploy" /\ last.status = 200
  /\ deployments[last.botId].status = "running"
  /\ \E b \in DOMAIN deployments :
       /\ b < last.botId
       /\ deployments[b].user_id = last.arg
       /\ deployments[b].status = "stopped"
  /\ Cardinality(TxOf(last.arg, "deploy")) = 2

\* C27: a stop has no ledger effect, whoever stops: a stop request of the user
\* or the admin leaves every balance and the transactions unchanged, and the
\* billing job neither charges nor refunds the owner of a deployment it stops.
C27_StopNoLedgerEffect ==
  [][ /\ last'.op \in {"stop", "adminStop"}
         => UNCHANGED << users, transactions >>
      /\ last'.op = "cron"
         => \A b \in RunningAtStart :
              LET uid == deployments[b].user_id IN
              users[uid].coins < DAILY_COIN_COST
              => /\ users'[uid] = users[uid]
                 /\ NewTxOf(uid) = {}
                 /\ Appended
    ]_vars

\* A deployment charged at deploy time was stopped by its user and the charge
\* stays: balance and ledger are those of the deploy.
C27_Witness ==
  /\ last.op = "stop" /\ last.status = 200
  /\ deployments[last.arg].status = "stopped"
  /\ users[deployments[last.arg].user_id].coins = WELCOME_BONUS - DAILY_COIN_COST
  /\ Cardinality(TxOf(deployments[last.arg].user_id, "deploy")) = 1
  /\ SumAmounts(transactions, deployments[last.arg].user_id)
       = WELCOME_BONUS - DAILY_COIN_COST

\* ----------------------------------------------------------- secret claims
Contains(str, part) ==
  \E i \in 1..(Len(str) - Len(part) + 1) :
    SubSeq(str, i, i + Len(part) - 1) = part

\* C23: what a deploy persists of the session secret in the deployment record
\* is a truncated preview: it never contains the complete secret, whatever
\* the length of the secret.
C23_PreviewTruncates ==
  [][ (last'.op = "deploy" /\ last'.status = 200)
      => ~Contains(deployments'[last'.botId].session_preview, last'.sessionId)
    ]_vars

\* ---------------------------------------------------------- gateway claims
\* C28: a stop request through the gateway with the token of user U changes a
\* deployment only when U owns it.
C28_StopOwnDeploymentOnly ==
  [][ \A b \in DOMAIN deployments :
        (last'.op = "apiStop" /\ deployments'[b] # deployments[b])
        => deployments[b].user_id = last'.user
    ]_vars

\* ---------------------------------------------------------- account claims
OwnTx(txs, uid) == SelectSeq(txs, LAMBDA t : t.user_id = uid)

RowsOfOthers(table, uid) ==
  [k \in { x \in DOMAIN table : table[x].user_id # uid } |-> table[k]]

\* C29: the deletion of a user by the admin removes the user and all of the
\* user's deployments, transactions and payment requests, so that no row
\* refers to the user afterwards, and leaves the balance, deployments,
\* transactions and payment requests of every other user unchanged; the
\* deletion of an unknown username is answered 404 and changes nothing.
C29_DeleteUser ==
  [][ \A name \in Usernames :
        (last'.op = "deleteUser" /\ last'.arg = name)
        => LET ids == { u \in DOMAIN users : users[u].username = name } IN
           IF ids = {}
           THEN last'.status = 404 /\ UNCHANGED << db, procs, dirs >>
           ELSE \A uid \in ids :
                  /\ last'.status = 200
                  /\ DOMAIN users' = DOMAIN users \ {uid}
                  /\ \A v \in DOMAIN users' : users'[v] = users[v]
                  /\ deployments' = RowsOfOthers(deployments, uid)
                  /\ payment_requests' = RowsOfOthers(payment_requests, uid)
                  /\ OwnTx(transactions', uid) = << >>
                  /\ \A v \in DOMAIN users' :
                       OwnTx(transactions', v) = OwnTx(transactions, v)
                  /\ Len(transactions')
                       = Len(transactions) - Len(OwnTx(transactions, uid))
    ]_vars

\* A user who had a deployment and a payment request was deleted; the other
\* user's balance, deployment, payment request and transactions are there.
C29_Witness ==
  /\ last.op = "deleteUser" /\ last.status = 200
  /\ \E b \in 1..(nextBot - 1) : b \notin DOMAIN deployments
  /\ \E r \in 1..(nextPrId - 1) : r \notin DOMAIN payment_requests
  /\ \E v \in DOMAIN users :
       /\ users[v].username # last.arg
       /\ RunningOf(deployments, v) # {}
       /\ \E r \in DOMAIN payment_requests : payment_requests[r].user_id = v
       /\ Len(OwnTx(transactions, v)) = 2
       /\ Len(transactions) = 2

\* C30: the in-memory mock server simulates the VPS manager API: after every
\* sequence of register, deploy, stop, admin-stop, adminTopup, submit,
\* approve and reject calls served by both, the mock and the server have
\* answered the last call with the same status and hold the same balances,
\* the same Transactions, the same Deployment statuses and the same
\* PaymentRequest statuses.
C30_MockSimulates ==
  /\ mock.status = last.status
  /\ DOMAIN mock.users = DOMAIN users
  /\ \A u \in DOMAIN users : mock.users[u].coins = users[u].coins
  /\ mock.transactions = transactions
  /\ DOMAIN mock.deployments = DOMAIN deployments
  /\ \A b \in DOMAIN deployments :
        mock.deployments[b].status = deployments[b].status
  /\ DOMAIN mock.paymentRequests = DOMAIN payment_requests
  /\ \A r \in DOMAIN payment_requests :
        mock.paymentRequests[r].status = payment_requests[r].status

=============================================================================
